---- MODULE Spec2Model ----
(***************************************************************************)
(* Hover-preview lifecycle of the workspace indicator (src/extension.js):  *)
(* the per-icon PreviewStateMachine, the PreviewRegistry singleton and the *)
(* WindowPreview glue that wires hover / click / timer events into them.   *)
(*                                                                         *)
(* Execution is single threaded: every signal handler and every GLib       *)
(* timeout callback runs to completion, so each handler is one action.     *)
(* A handler is a sequential program; it is modelled as a composition of   *)
(* operators on a record S holding the whole program state.  S.thrown is   *)
(* set when a JavaScript exception is raised; every operator is strict in  *)
(* it (a raised exception skips the rest of the handler).  S.log records   *)
(* the calls made by the handler, in order.                                *)
(*                                                                         *)
(* GLib main-loop sources are modelled by the set S.sources of the live    *)
(* timeout sources; the JavaScript fields that hold source ids             *)
(* (_ctrlPollId, _cleanupTimeoutId, _hoverTimeoutId) are separate, because *)
(* the code can leave a field non-null after its source is gone.           *)
(*                                                                         *)
(* The pointer is in one place at a time; a move from one surface to       *)
(* another delivers the leave notification before the enter notification,  *)
(* so it is modelled as a leave followed by an enter.  What St does when   *)
(* an overlay is destroyed under the pointer is not in the source: either  *)
(* nothing (unmapNotifies = FALSE), or the overlay's notify::hover handler *)
(* runs synchronously with hover = false, inside the handler that          *)
(* destroyed the overlay (unmapNotifies = TRUE).  Both are specified.      *)
(***************************************************************************)
EXTENDS Integers, Sequences, FiniteSets, TLC

\* Number of window icons (WindowPreview instances) in the panel.
NumIcons == 2

Icons == 1..NumIcons

\* src/extension.js:23-28
IDLE == "idle"
SHOWING_PREVIEW == "showing_preview"
SHOWING_TITLE == "showing_title"
CLEANUP_DELAY == "cleanup_delay"
States == {IDLE, SHOWING_PREVIEW, SHOWING_TITLE, CLEANUP_DELAY}

\* PreviewRegistry.activePreview === null
NoPreview == 0

\* Mouse buttons of a button-press-event
BUTTON_PRIMARY == "primary"
BUTTON_MIDDLE == "middle"
BUTTON_SECONDARY == "secondary"
Buttons == {BUTTON_PRIMARY, BUTTON_MIDDLE, BUTTON_SECONDARY}

\* Where the pointer is: over no tracked surface, over an icon, over an
\* icon's preview overlay or over its title overlay.
Nowhere == <<"none", 0>>
OnIcon(i) == <<"icon", i>>
OnPreview(i) == <<"preview", i>>
OnTitle(i) == <<"title", i>>

\* GLib timeout sources
HoverSource(i) == <<"hover", i>>
PollSource(i) == <<"poll", i>>
CleanupSource(i) == <<"cleanup", i>>
AddSource(i) == <<"add", i>>

VARIABLES
    state,            \* PreviewStateMachine._state, per icon
    ctrlPressed,      \* PreviewStateMachine._ctrlPressed
    ctrlPollId,       \* PreviewStateMachine._ctrlPollId is non-null
    cleanupTimeoutId, \* PreviewStateMachine._cleanupTimeoutId is non-null
    callbacks,        \* PreviewStateMachine._callbacks is non-null
    hoverTimeoutId,   \* WindowPreview._hoverTimeoutId is non-null
    hoverPreview,     \* WindowPreview._hoverPreview exists
    titlePopup,       \* WindowPreview._titlePopup exists
    activePreview,    \* PreviewRegistry.activePreview (an icon or NoPreview)
    windowPreviews,   \* icons held in a WorkspaceThumbnail._windowPreviews map
    addWindowTimeoutIds, \* windows with an entry in _addWindowTimeoutIds
    windowCount,      \* WorkspaceThumbnail._windowCount
    boxIcons,         \* per window, its icon actors that are children of _windowsBox
    onWorkspace,      \* the windows on the thumbnail's workspace
    sources,          \* live GLib timeout sources
    pointer,          \* the surface under the pointer
    ctrlDown,         \* the Control key as global.get_pointer() reports it
    unmapNotifies,    \* St notifies hover = false on destroying a hovered overlay
    log,              \* calls made by the last handler, in order
    last              \* the last handler: its name, icon and pre-state

vars == <<state, ctrlPressed, ctrlPollId, cleanupTimeoutId, callbacks,
          hoverTimeoutId, hoverPreview, titlePopup, activePreview,
          windowPreviews, addWindowTimeoutIds, windowCount, boxIcons,
          onWorkspace, sources, pointer, ctrlDown, unmapNotifies, log, last>>

\* The program state as one record, at the start of a handler.
Cur ==
    [state |-> state, ctrlPressed |-> ctrlPressed, ctrlPollId |-> ctrlPollId,
     cleanupTimeoutId |-> cleanupTimeoutId, callbacks |-> callbacks,
     hoverTimeoutId |-> hoverTimeoutId, hoverPreview |-> hoverPreview,
     titlePopup |-> titlePopup, activePreview |-> activePreview,
     windowPreviews |-> windowPreviews, sources |-> sources,
     addWindowTimeoutIds |-> addWindowTimeoutIds, windowCount |-> windowCount,
     boxIcons |-> boxIcons, onWorkspace |-> onWorkspace,
     pointer |-> pointer, ctrlDown |-> ctrlDown,
     unmapNotifies |-> unmapNotifies,
     log |-> <<>>, thrown |-> FALSE]

\* A log entry: the call, the icon it concerns, and an argument ("" if none).
Ev(name, i, arg) == <<name, i, arg>>

Log(S, e) ==
    IF S.thrown THEN S ELSE [S EXCEPT !.log = Append(@, e)]

\* A TypeError is raised: the rest of the running handler is skipped.
Throw(S, i, what) ==
    IF S.thrown THEN S
    ELSE [S EXCEPT !.log = Append(@, Ev("throw", i, what)), !.thrown = TRUE]

\* A signal handler or timeout callback has returned (or its exception was
\* caught and logged by the main loop): the next handler starts clean.
Caught(S) == [S EXCEPT !.thrown = FALSE]

(***************************************************************************)
(* WindowPreview: the overlay widgets and the callback table               *)
(***************************************************************************)

\* this.hover of the icon
hover(S, i) == S.pointer = OnIcon(i)

\* this._hoverPreview?.hover || false
previewHover(S, i) == S.hoverPreview[i] /\ S.pointer = OnPreview(i)

\* this._titlePopup?.hover || false
titleHover(S, i) == S.titlePopup[i] /\ S.pointer = OnTitle(i)

shouldAbortCleanup(S, i) == hover(S, i) \/ previewHover(S, i) \/ titleHover(S, i)

\* callbacks.hasPreview / callbacks.hasTitle
hasPreview(S, i) == S.hoverPreview[i]
hasTitle(S, i) == S.titlePopup[i]

(***************************************************************************)
(* PreviewStateMachine: timers                                             *)
(***************************************************************************)

isShowingPreview(S, i) == S.state[i] \in {SHOWING_PREVIEW, SHOWING_TITLE}

\* Mutant: _stopCleanupTimer removes the source and keeps the handle.
stopCleanupTimer_KeepHandle(S, i) ==
    IF S.thrown \/ ~S.cleanupTimeoutId[i] THEN S
    ELSE Log([S EXCEPT !.sources = @ \ {CleanupSource(i)}],
             Ev("stopCleanupTimer", i, ""))

\* GLib.Source.remove of an id whose source is gone removes nothing.
stopCtrlPoll(S, i) ==
    IF S.thrown \/ ~S.ctrlPollId[i] THEN S
    ELSE Log([S EXCEPT !.ctrlPollId[i] = FALSE,
                       !.sources = @ \ {PollSource(i)}],
             Ev("stopCtrlPoll", i, ""))

stopCleanupTimer(S, i) ==
    IF S.thrown \/ ~S.cleanupTimeoutId[i] THEN S
    ELSE Log([S EXCEPT !.cleanupTimeoutId[i] = FALSE,
                       !.sources = @ \ {CleanupSource(i)}],
             Ev("stopCleanupTimer", i, ""))

\* this._state === X && this._callbacks.hasX(): _callbacks is dereferenced
\* only when the state test succeeds.
startCtrlPoll(S, i) ==
    LET S1 == stopCtrlPoll(S, i)
        hasPreviewContent ==
            \/ S1.state[i] = SHOWING_PREVIEW /\ hasPreview(S1, i)
            \/ S1.state[i] = SHOWING_TITLE /\ hasTitle(S1, i)
    IN  IF S1.thrown THEN S1
        ELSE IF isShowingPreview(S1, i) /\ ~S1.callbacks[i]
        THEN Throw(S1, i, "_callbacks is null")
        ELSE IF ~hasPreviewContent THEN S1
        ELSE Log([S1 EXCEPT !.ctrlPollId[i] = TRUE,
                            !.sources = @ \cup {PollSource(i)}],
                 Ev("startCtrlPoll", i, ""))

startCleanupTimer(S, i) ==
    LET S1 == stopCleanupTimer(S, i)
    IN  IF S1.thrown THEN S1
        ELSE Log([S1 EXCEPT !.cleanupTimeoutId[i] = TRUE,
                            !.sources = @ \cup {CleanupSource(i)}],
                 Ev("startCleanupTimer", i, ""))

checkCtrlKeyState(S, i) ==
    IF S.thrown THEN S
    ELSE Log([S EXCEPT !.ctrlPressed[i] = S.ctrlDown],
             Ev("checkCtrlKeyState", i, ""))

(***************************************************************************)
(* PreviewStateMachine: leaving a state; WindowPreview: hiding an overlay  *)
(***************************************************************************)

\* _exitState runs before this._state is assigned, so the test of
\* this._state in the showing-state branch reads the state being left.
exitState(S, i, st) ==
    IF S.thrown THEN S
    ELSE CASE st = CLEANUP_DELAY -> stopCleanupTimer(S, i)
           [] st \in {SHOWING_PREVIEW, SHOWING_TITLE} ->
                LET isStayingInPreview ==
                        S.state[i] = SHOWING_PREVIEW \/ S.state[i] = SHOWING_TITLE
                IN  IF ~isStayingInPreview THEN stopCtrlPoll(S, i) ELSE S
           [] OTHER -> S

validTransitions(old) ==
    CASE old = IDLE -> {SHOWING_PREVIEW, SHOWING_TITLE}
      [] old = SHOWING_PREVIEW -> {SHOWING_TITLE, CLEANUP_DELAY, IDLE}
      [] old = SHOWING_TITLE -> {SHOWING_PREVIEW, CLEANUP_DELAY, IDLE}
      [] old = CLEANUP_DELAY -> {IDLE, SHOWING_PREVIEW, SHOWING_TITLE}

setState(S, i, newState) ==
    IF S.thrown THEN S
    ELSE Log([S EXCEPT !.state[i] = newState], Ev("state", i, newState))

\* transition() up to and including the assignment of this._state: the
\* warning for a move outside the table, the exit action, the assignment.
leaveState(S, i, newState) ==
    LET oldState == S.state[i]
        S0 == IF newState \in validTransitions(oldState) THEN S
              ELSE Log(S, Ev("invalidTransition", i, newState))
        S1 == exitState(S0, i, oldState)
    IN  setState(S1, i, newState)

\* The notify::hover handler of an overlay destroyed under the pointer,
\* run by St with hover = false inside the call that destroys it.  The icon
\* is not hovered then, so the handler is onPreviewHoverLeave(false): in a
\* showing state, transition(CLEANUP_DELAY), whose enter action stops and
\* starts the cleanup timer and calls nothing of the callback table.
unmapHoverLeave(S, i) ==
    IF S.thrown \/ ~isShowingPreview(S, i) THEN S
    ELSE startCleanupTimer(
             stopCleanupTimer(leaveState(S, i, CLEANUP_DELAY), i), i)

\* The field is nulled first, then the widget is removed and destroyed; the
\* pointer, if it was over it, is over no tracked surface any more, and if
\* St notifies, the hover handler of the overlay runs here.
hideHoverPreview(S, i) ==
    IF S.thrown \/ ~S.hoverPreview[i] THEN S
    ELSE LET S1 == Log([S EXCEPT !.hoverPreview[i] = FALSE,
                                 !.pointer = IF @ = OnPreview(i) THEN Nowhere
                                             ELSE @],
                       Ev("destroyPreview", i, ""))
         IN  IF S.unmapNotifies /\ S.pointer = OnPreview(i)
             THEN unmapHoverLeave(S1, i)
             ELSE S1

hideTitlePopup(S, i) ==
    IF S.thrown \/ ~S.titlePopup[i] THEN S
    ELSE LET S1 == Log([S EXCEPT !.titlePopup[i] = FALSE,
                                 !.pointer = IF @ = OnTitle(i) THEN Nowhere
                                             ELSE @],
                       Ev("destroyTitle", i, ""))
         IN  IF S.unmapNotifies /\ S.pointer = OnTitle(i)
             THEN unmapHoverLeave(S1, i)
             ELSE S1

\* Mutant: _hideAllPreviews hides the hover preview only.
hideAllPreviews_PreviewOnly(S, i) == hideHoverPreview(S, i)

hideAllPreviews(S, i) == hideTitlePopup(hideHoverPreview(S, i), i)

\* The onHideAll entry of the callback table
onHideAll(S, i) == hideAllPreviews(Log(S, Ev("onHideAll", i, "")), i)

(***************************************************************************)
(* WindowPreview: the show callbacks (they call back into the machine)     *)
(***************************************************************************)

\* Mutant: _showTitlePopup without its call of _hideHoverPreview.
showTitlePopup_KeepPreview(S, i) ==
    LET S1 == Log(S, Ev("onShowTitle", i, ""))
    IN  IF S1.thrown THEN S1
        ELSE IF S1.titlePopup[i] THEN S1
        ELSE IF ~hover(S1, i) THEN stopCtrlPoll(S1, i)
        ELSE Log([S1 EXCEPT !.titlePopup[i] = TRUE],
                 Ev("createTitle", i, ""))

\* this._window is set in the constructor and never cleared.  After
\* _hideTitlePopup and the "already exists" return, _hoverPreview is null,
\* so the abort test is !this.hover and shouldShow is this.hover.
showHoverPreview(S, i) ==
    LET S1 == hideTitlePopup(Log(S, Ev("onShowPreview", i, "")), i)
    IN  IF S1.thrown THEN S1
        ELSE IF S1.hoverPreview[i] THEN S1
        ELSE IF ~hover(S1, i) THEN stopCtrlPoll(S1, i)
        ELSE Log([S1 EXCEPT !.hoverPreview[i] = TRUE],
                 Ev("createPreview", i, ""))

showTitlePopup(S, i) ==
    LET S1 == hideHoverPreview(Log(S, Ev("onShowTitle", i, "")), i)
    IN  IF S1.thrown THEN S1
        ELSE IF S1.titlePopup[i] THEN S1
        ELSE IF ~hover(S1, i) THEN stopCtrlPoll(S1, i)
        ELSE Log([S1 EXCEPT !.titlePopup[i] = TRUE],
                 Ev("createTitle", i, ""))

(***************************************************************************)
(* PreviewStateMachine: transitions                                        *)
(***************************************************************************)

enterState(S, i, st) ==
    LET S1 == stopCleanupTimer(S, i)
    IN  IF S1.thrown THEN S1
        ELSE CASE st = SHOWING_PREVIEW ->
                    IF ~S1.callbacks[i] THEN Throw(S1, i, "_callbacks is null")
                    ELSE LET S2 == showHoverPreview(S1, i)
                         IN  IF ~S2.ctrlPollId[i] THEN startCtrlPoll(S2, i) ELSE S2
               [] st = SHOWING_TITLE ->
                    IF ~S1.callbacks[i] THEN Throw(S1, i, "_callbacks is null")
                    ELSE LET S2 == showTitlePopup(S1, i)
                         IN  IF ~S2.ctrlPollId[i] THEN startCtrlPoll(S2, i) ELSE S2
               [] st = CLEANUP_DELAY -> startCleanupTimer(S1, i)
               [] st = IDLE ->
                    IF ~S1.callbacks[i] THEN Throw(S1, i, "_callbacks is null")
                    ELSE onHideAll(S1, i)
               [] OTHER -> S1

\* Mutant: transition rejects a move outside the table.
transition_Strict(S, i, newState) ==
    IF S.thrown THEN S
    ELSE IF S.state[i] = newState THEN S
    ELSE IF newState \notin validTransitions(S.state[i]) THEN S
    ELSE enterState(leaveState(S, i, newState), i, newState)

transition(S, i, newState) ==
    IF S.thrown THEN S
    ELSE IF S.state[i] = newState THEN S
    ELSE enterState(leaveState(S, i, newState), i, newState)

\* Mutant: the showing state is chosen against the last-known modifier.
showingStateFor_Inverted(S, i) ==
    IF S.ctrlPressed[i] THEN SHOWING_PREVIEW ELSE SHOWING_TITLE

showingStateFor(S, i) ==
    IF S.ctrlPressed[i] THEN SHOWING_TITLE ELSE SHOWING_PREVIEW

\* Mutant: onIconHoverEnter acts in every state.
onIconHoverEnter_AnyState(S, i) ==
    IF S.thrown THEN S
    ELSE LET S1 == checkCtrlKeyState(S, i)
         IN  transition(S1, i, showingStateFor(S1, i))

\* Mutant: onIconHoverLeave restarts a running cleanup timer.
onIconHoverLeave_Restart(S, i) ==
    IF S.thrown THEN S
    ELSE IF S.state[i] = SHOWING_PREVIEW \/ S.state[i] = SHOWING_TITLE
    THEN transition(S, i, CLEANUP_DELAY)
    ELSE IF S.state[i] = CLEANUP_DELAY
    THEN startCleanupTimer(stopCleanupTimer(S, i), i)
    ELSE S

onIconHoverEnter(S, i) ==
    IF S.thrown THEN S
    ELSE IF S.state[i] = CLEANUP_DELAY \/ S.state[i] = IDLE
    THEN LET S1 == checkCtrlKeyState(S, i)
         IN  transition(S1, i, showingStateFor(S1, i))
    ELSE S

\* Mutant: onIconHoverLeave goes to CleanupDelay from every state.
onIconHoverLeave_AnyState(S, i) ==
    IF S.thrown THEN S
    ELSE transition(S, i, CLEANUP_DELAY)

onIconHoverLeave(S, i) ==
    IF S.thrown THEN S
    ELSE IF S.state[i] = SHOWING_PREVIEW \/ S.state[i] = SHOWING_TITLE
    THEN transition(S, i, CLEANUP_DELAY)
    ELSE S

\* Mutant: onPreviewHoverEnter also acts in Idle.
onPreviewHoverEnter_AlsoIdle(S, i) ==
    IF S.thrown THEN S
    ELSE IF S.state[i] = CLEANUP_DELAY \/ S.state[i] = IDLE
    THEN LET S1 == checkCtrlKeyState(S, i)
         IN  transition(S1, i, showingStateFor(S1, i))
    ELSE S

onPreviewHoverEnter(S, i) ==
    IF S.thrown THEN S
    ELSE IF S.state[i] = CLEANUP_DELAY
    THEN LET S1 == checkCtrlKeyState(S, i)
         IN  transition(S1, i, showingStateFor(S1, i))
    ELSE S

\* Mutant: onPreviewHoverLeave ignores its argument.
onPreviewHoverLeave_IgnoreIcon(S, i, iconHovered) ==
    IF S.thrown THEN S
    ELSE IF isShowingPreview(S, i)
    THEN transition(S, i, CLEANUP_DELAY)
    ELSE S

onPreviewHoverLeave(S, i, iconHovered) ==
    IF S.thrown THEN S
    ELSE IF ~iconHovered /\ isShowingPreview(S, i)
    THEN transition(S, i, CLEANUP_DELAY)
    ELSE S

(***************************************************************************)
(* PreviewRegistry, forceIdle and destroy                                  *)
(***************************************************************************)

setActivePreview(S, v) ==
    IF S.thrown THEN S
    ELSE Log([S EXCEPT !.activePreview = v], Ev("activePreview", v, ""))

\* Mutant: unregisterPreview clears the slot whoever holds it.
unregisterPreview_Always(S, i) ==
    IF S.thrown THEN S
    ELSE setActivePreview(Log(S, Ev("unregisterPreview", i, "")), NoPreview)

unregisterPreview(S, i) ==
    IF S.thrown THEN S
    ELSE LET S1 == Log(S, Ev("unregisterPreview", i, ""))
         IN  IF S1.activePreview = i THEN setActivePreview(S1, NoPreview) ELSE S1

\* The onForceIdle entry of the callback table built by WindowPreview.
onForceIdle(S, i) == unregisterPreview(Log(S, Ev("onForceIdle", i, "")), i)

\* Mutant: forceIdle notifies the owner only when the machine is not Idle.
forceIdle_SkipWhenIdle(S, i, reason) ==
    IF S.thrown THEN S
    ELSE LET S1 == Log(S, Ev("forceIdle", i, reason))
             S2 == IF S1.callbacks[i] /\ S1.state[i] # IDLE
                   THEN onForceIdle(S1, i) ELSE S1
         IN  transition(S2, i, IDLE)

forceIdle(S, i, reason) ==
    IF S.thrown THEN S
    ELSE LET S1 == Log(S, Ev("forceIdle", i, reason))
             S2 == IF S1.callbacks[i] THEN onForceIdle(S1, i) ELSE S1
         IN  transition(S2, i, IDLE)

\* Mutant: the previously active preview is not forced to Idle.
registerPreview_NoForceIdle(S, i) ==
    IF S.thrown THEN S
    ELSE setActivePreview(Log(S, Ev("registerPreview", i, "")), i)

\* Mutant: registerPreview forces the previous controller to Idle whatever
\* its state.
registerPreview_AlwaysForceIdle(S, i) ==
    IF S.thrown THEN S
    ELSE LET S1 == Log(S, Ev("registerPreview", i, ""))
             a == S1.activePreview
             S2 == IF a # NoPreview /\ a # i
                   THEN forceIdle(S1, a, "new preview registered")
                   ELSE S1
         IN  setActivePreview(S2, i)

\* Mutant: the new preview is recorded before the old one is forced to Idle.
registerPreview_RecordFirst(S, i) ==
    IF S.thrown THEN S
    ELSE LET S1 == setActivePreview(Log(S, Ev("registerPreview", i, "")), i)
             a == S.activePreview
         IN  IF a # NoPreview /\ a # i
             THEN IF isShowingPreview(S1, a) \/ S1.state[a] = CLEANUP_DELAY
                  THEN forceIdle(S1, a, "new preview registered")
                  ELSE S1
             ELSE S1

registerPreview(S, i) ==
    IF S.thrown THEN S
    ELSE LET S1 == Log(S, Ev("registerPreview", i, ""))
             a == S1.activePreview
             S2 == IF a # NoPreview /\ a # i
                   THEN IF isShowingPreview(S1, a) \/ S1.state[a] = CLEANUP_DELAY
                        THEN forceIdle(S1, a, "new preview registered")
                        ELSE S1
                   ELSE S1
         IN  setActivePreview(S2, i)

\* Mutant: destroy() leaves the callback table attached.
destroy_KeepCallbacks(S, i) ==
    IF S.thrown THEN S
    ELSE LET S1 == Log(S, Ev("destroy", i, ""))
             S2 == IF S1.state[i] # IDLE /\ S1.callbacks[i]
                   THEN onHideAll(S1, i) ELSE S1
         IN  stopCleanupTimer(stopCtrlPoll(S2, i), i)

\* PreviewStateMachine.destroy
destroy(S, i) ==
    IF S.thrown THEN S
    ELSE LET S1 == Log(S, Ev("destroy", i, ""))
             S2 == IF S1.state[i] # IDLE /\ S1.callbacks[i]
                   THEN onHideAll(S1, i) ELSE S1
             S3 == stopCleanupTimer(stopCtrlPoll(S2, i), i)
         IN  [S3 EXCEPT !.callbacks[i] = FALSE]

(***************************************************************************)
(* WindowPreview: signal handlers and timeout callbacks                    *)
(***************************************************************************)

\* Mutant: a pending debounce is left scheduled.
removeHoverTimeout_Keep(S, i) == S

removeHoverTimeout(S, i) ==
    IF S.thrown \/ ~S.hoverTimeoutId[i] THEN S
    ELSE Log([S EXCEPT !.hoverTimeoutId[i] = FALSE,
                       !.sources = @ \ {HoverSource(i)}],
             Ev("removeHoverTimeout", i, ""))

\* The notify::hover handler of the icon; this.hover has its new value.
notifyHover(S, i) ==
    LET S1 == removeHoverTimeout(S, i)
    IN  IF isShowingPreview(S1, i) \/ S1.state[i] = CLEANUP_DELAY
        THEN IF hover(S1, i)
             THEN onIconHoverEnter(registerPreview(S1, i), i)
             ELSE onIconHoverLeave(S1, i)
        ELSE IF hover(S1, i)
             THEN Log([S1 EXCEPT !.hoverTimeoutId[i] = TRUE,
                                 !.sources = @ \cup {HoverSource(i)}],
                      Ev("addHoverTimeout", i, ""))
             ELSE onIconHoverLeave(S1, i)

\* Mutant: the debounce callback enters the showing state without
\* registering the controller.
hoverTimeout_NoRegister(S, i) ==
    LET S1 == [S EXCEPT !.hoverTimeoutId[i] = FALSE,
                        !.sources = @ \ {HoverSource(i)}]
    IN  IF S1.state[i] = IDLE
        THEN onIconHoverEnter(S1, i)
        ELSE S1

\* The debounce callback; it returns SOURCE_REMOVE (an exception removes
\* the source as well).
hoverTimeout(S, i) ==
    LET S1 == [S EXCEPT !.hoverTimeoutId[i] = FALSE,
                        !.sources = @ \ {HoverSource(i)}]
    IN  IF S1.state[i] = IDLE
        THEN onIconHoverEnter(registerPreview(S1, i), i)
        ELSE S1

\* notify::hover of the preview overlay or of the title overlay
notifyOverlayHover(S, i, entered) ==
    IF entered THEN onPreviewHoverEnter(S, i)
    ELSE onPreviewHoverLeave(S, i, hover(S, i))

\* Mutant: the poll tick does not record the sampled modifier.
onCtrlPollTick_NoUpdate(S, i) ==
    LET removed(T) == [T EXCEPT !.sources = @ \ {PollSource(i)}]
        hasContent ==
            \/ S.state[i] = SHOWING_PREVIEW /\ hasPreview(S, i)
            \/ S.state[i] = SHOWING_TITLE /\ hasTitle(S, i)
    IN  IF ~isShowingPreview(S, i) THEN removed(stopCtrlPoll(S, i))
        ELSE IF ~S.callbacks[i] THEN removed(Throw(S, i, "_callbacks is null"))
        ELSE IF ~hasContent
        THEN removed(forceIdle(S, i, "preview missing during poll"))
        ELSE IF S.ctrlDown # S.ctrlPressed[i]
        THEN LET S1 == Log(S, Ev("ctrlChanged", i, ""))
                 S2 == IF S1.state[i] = SHOWING_PREVIEW /\ S1.ctrlDown
                       THEN transition(S1, i, SHOWING_TITLE)
                       ELSE IF S1.state[i] = SHOWING_TITLE /\ ~S1.ctrlDown
                       THEN transition(S1, i, SHOWING_PREVIEW)
                       ELSE S1
             IN  IF S2.thrown THEN removed(S2) ELSE S2
        ELSE S

\* _onCtrlPollTick; SOURCE_REMOVE (or an exception) removes the dispatched
\* source and leaves this._ctrlPollId as the body left it.
onCtrlPollTick(S, i) ==
    LET removed(T) == [T EXCEPT !.sources = @ \ {PollSource(i)}]
        hasContent ==
            \/ S.state[i] = SHOWING_PREVIEW /\ hasPreview(S, i)
            \/ S.state[i] = SHOWING_TITLE /\ hasTitle(S, i)
    IN  IF ~isShowingPreview(S, i) THEN removed(stopCtrlPoll(S, i))
        ELSE IF ~S.callbacks[i] THEN removed(Throw(S, i, "_callbacks is null"))
        ELSE IF ~hasContent
        THEN removed(forceIdle(S, i, "preview missing during poll"))
        ELSE IF S.ctrlDown # S.ctrlPressed[i]
        THEN LET S1 == Log([S EXCEPT !.ctrlPressed[i] = S.ctrlDown],
                           Ev("ctrlChanged", i, ""))
                 S2 == IF S1.state[i] = SHOWING_PREVIEW /\ S1.ctrlDown
                       THEN transition(S1, i, SHOWING_TITLE)
                       ELSE IF S1.state[i] = SHOWING_TITLE /\ ~S1.ctrlDown
                       THEN transition(S1, i, SHOWING_PREVIEW)
                       ELSE S1
             IN  IF S2.thrown THEN removed(S2) ELSE S2
        ELSE S

\* Mutant: the cleanup callback without its shouldAbortCleanup branch.
cleanupTimeout_NoAbort(S, i) ==
    LET removed(T) == [T EXCEPT !.sources = @ \ {CleanupSource(i)}]
    IN  IF ~S.callbacks[i] THEN removed(Throw(S, i, "_callbacks is null"))
        ELSE LET S1 == transition(S, i, IDLE)
             IN  IF S1.thrown THEN removed(S1)
                 ELSE removed([S1 EXCEPT !.cleanupTimeoutId[i] = FALSE])


\* The cleanup timeout callback; it always ends SOURCE_REMOVE.
cleanupTimeout(S, i) ==
    LET removed(T) == [T EXCEPT !.sources = @ \ {CleanupSource(i)}]
    IN  IF ~S.callbacks[i] THEN removed(Throw(S, i, "_callbacks is null"))
        ELSE IF shouldAbortCleanup(S, i)
        THEN removed(Log([S EXCEPT !.cleanupTimeoutId[i] = FALSE],
                         Ev("cleanupAborted", i, "")))
        ELSE LET S1 == transition(S, i, IDLE)
             IN  IF S1.thrown THEN removed(S1)
                 ELSE removed([S1 EXCEPT !.cleanupTimeoutId[i] = FALSE])

\* _onButtonPressed of the icon
onButtonPressed(S, i, button) ==
    IF button = BUTTON_PRIMARY THEN forceIdle(S, i, "left click")
    ELSE IF button = BUTTON_SECONDARY THEN forceIdle(S, i, "right click")
    ELSE S

\* button-press-event of the preview overlay
onPreviewButtonPressed(S, i, button) ==
    IF button = BUTTON_PRIMARY THEN forceIdle(S, i, "preview clicked") ELSE S

\* clicked of the preview's close button
onCloseButtonClicked(S, i) == forceIdle(S, i, "close button clicked")

\* The workspace-switched handler of one icon
onWorkspaceSwitched(S, i) == forceIdle(S, i, "workspace switched")

\* One emission of workspace-switched runs the handler of every icon, in
\* connection order; an exception in one handler does not stop the others.
RECURSIVE workspaceSwitchedFrom(_, _)
workspaceSwitchedFrom(S, i) ==
    IF i > NumIcons THEN S
    ELSE workspaceSwitchedFrom(Caught(onWorkspaceSwitched(S, i)), i + 1)

\* this._cleanupContextMenu is defined nowhere (not in WindowPreview, not
\* in St.Button): the call raises a TypeError.
cleanupContextMenu(S, i) ==
    Throw(S, i, "this._cleanupContextMenu is not a function")

\* WindowPreview.destroy: the statements in source order; super.destroy()
\* at the end takes the actor out of its parent.
WindowPreview_destroy(S, i) ==
    LET S1 == Log(S, Ev("WindowPreview.destroy", i, ""))
        S2 == cleanupContextMenu(S1, i)
        S3 == unregisterPreview(S2, i)
        S4 == removeHoverTimeout(S3, i)
        S5 == destroy(S4, i)
        S6 == hideAllPreviews(Log(S5, Ev("hideAllPreviews", i, "")), i)
    IN  IF S6.thrown THEN S6
        ELSE [S6 EXCEPT !.boxIcons[i] = IF @ > 0 THEN @ - 1 ELSE @]

\* WorkspaceThumbnail._removeWindow: it returns at once when the window has
\* no preview; the decrement of _windowCount follows preview.destroy().
removeWindow(S, i) ==
    LET S0 == Log(S, Ev("removeWindow", i, ""))
    IN  IF i \notin S0.windowPreviews THEN S0
        ELSE LET S1 == IF i \in S0.addWindowTimeoutIds
                       THEN [S0 EXCEPT !.sources = @ \ {AddSource(i)},
                                       !.addWindowTimeoutIds = @ \ {i}]
                       ELSE S0
                 S2 == WindowPreview_destroy(
                           [S1 EXCEPT !.windowPreviews = @ \ {i}], i)
             IN  IF S2.thrown THEN S2
                 ELSE [S2 EXCEPT !.windowCount = @ - 1]

\* WorkspaceThumbnail._addWindow
addWindow(S, i, skipTaskbar) ==
    IF i \in S.windowPreviews \/ skipTaskbar THEN S
    ELSE LET S1 == IF i \in S.addWindowTimeoutIds
                   THEN Log([S EXCEPT !.sources = @ \ {AddSource(i)},
                                      !.addWindowTimeoutIds = @ \ {i}],
                            Ev("removeAddWindowTimeout", i, ""))
                   ELSE S
         IN  Log([S1 EXCEPT !.sources = @ \cup {AddSource(i)},
                            !.addWindowTimeoutIds = @ \cup {i}],
                 Ev("addWindowTimeout", i, ""))

\* new WindowPreview(window): a fresh icon with a fresh state machine
newWindowPreview(S, i) ==
    Log([S EXCEPT !.state[i] = IDLE, !.ctrlPressed[i] = FALSE,
                  !.ctrlPollId[i] = FALSE, !.cleanupTimeoutId[i] = FALSE,
                  !.callbacks[i] = TRUE, !.hoverTimeoutId[i] = FALSE,
                  !.hoverPreview[i] = FALSE, !.titlePopup[i] = FALSE],
        Ev("newWindowPreview", i, ""))

\* The callback of the timeout added by _addWindow; it always ends
\* SOURCE_REMOVE, and deletes its map entry only when it created the icon.
addWindowTimeout(S, i, onStage) ==
    LET removed(T) == [T EXCEPT !.sources = @ \ {AddSource(i)}]
    IN  IF i \in S.windowPreviews THEN removed(S)
        ELSE IF ~onStage THEN removed(S)
        ELSE LET S1 == newWindowPreview(S, i)
             IN  removed([S1 EXCEPT !.windowPreviews = @ \cup {i},
                                    !.boxIcons[i] = @ + 1,
                                    !.windowCount = @ + 1,
                                    !.addWindowTimeoutIds = @ \ {i}])

(***************************************************************************)
(* The state machine: one action per handler                               *)
(***************************************************************************)

Init ==
    /\ state = [i \in Icons |-> IDLE]
    /\ ctrlPressed = [i \in Icons |-> FALSE]
    /\ ctrlPollId = [i \in Icons |-> FALSE]
    /\ cleanupTimeoutId = [i \in Icons |-> FALSE]
    /\ callbacks = [i \in Icons |-> TRUE]
    /\ hoverTimeoutId = [i \in Icons |-> FALSE]
    /\ hoverPreview = [i \in Icons |-> FALSE]
    /\ titlePopup = [i \in Icons |-> FALSE]
    /\ activePreview = NoPreview
    /\ windowPreviews = Icons
    /\ addWindowTimeoutIds = {}
    /\ windowCount = NumIcons
    /\ boxIcons = [i \in Icons |-> 1]
    /\ onWorkspace = Icons
    /\ sources = {}
    /\ pointer = Nowhere
    /\ ctrlDown = FALSE
    /\ unmapNotifies = FALSE
    /\ log = <<>>
    /\ last = [op |-> "init", icon |-> 0, arg |-> "",
               state |-> [i \in Icons |-> IDLE],
               activePreview |-> NoPreview, sources |-> {}]

\* The handler op of icon i has run from the current state and left S.
Commit(S, op, i, arg) ==
    /\ state' = S.state
    /\ ctrlPressed' = S.ctrlPressed
    /\ ctrlPollId' = S.ctrlPollId
    /\ cleanupTimeoutId' = S.cleanupTimeoutId
    /\ callbacks' = S.callbacks
    /\ hoverTimeoutId' = S.hoverTimeoutId
    /\ hoverPreview' = S.hoverPreview
    /\ titlePopup' = S.titlePopup
    /\ activePreview' = S.activePreview
    /\ windowPreviews' = S.windowPreviews
    /\ addWindowTimeoutIds' = S.addWindowTimeoutIds
    /\ windowCount' = S.windowCount
    /\ boxIcons' = S.boxIcons
    /\ onWorkspace' = S.onWorkspace
    /\ sources' = S.sources
    /\ pointer' = S.pointer
    /\ ctrlDown' = S.ctrlDown
    /\ unmapNotifies' = S.unmapNotifies
    /\ log' = S.log
    /\ last' = [op |-> op, icon |-> i, arg |-> arg, state |-> state,
                activePreview |-> activePreview, sources |-> sources]

\* The pointer moves onto icon i: notify::hover with hover = true.
IconHoverEnter(i) ==
    /\ pointer = Nowhere
    /\ Commit(notifyHover([Cur EXCEPT !.pointer = OnIcon(i)], i),
              "IconHoverEnter", i, "")

\* The pointer leaves icon i: notify::hover with hover = false.
IconHoverLeave(i) ==
    /\ pointer = OnIcon(i)
    /\ Commit(notifyHover([Cur EXCEPT !.pointer = Nowhere], i),
              "IconHoverLeave", i, "")

PreviewHoverEnter(i) ==
    /\ pointer = Nowhere
    /\ hoverPreview[i]
    /\ Commit(notifyOverlayHover([Cur EXCEPT !.pointer = OnPreview(i)], i, TRUE),
              "PreviewHoverEnter", i, "")

PreviewHoverLeave(i) ==
    /\ pointer = OnPreview(i)
    /\ Commit(notifyOverlayHover([Cur EXCEPT !.pointer = Nowhere], i, FALSE),
              "PreviewHoverLeave", i, "")

TitleHoverEnter(i) ==
    /\ pointer = Nowhere
    /\ titlePopup[i]
    /\ Commit(notifyOverlayHover([Cur EXCEPT !.pointer = OnTitle(i)], i, TRUE),
              "TitleHoverEnter", i, "")

TitleHoverLeave(i) ==
    /\ pointer = OnTitle(i)
    /\ Commit(notifyOverlayHover([Cur EXCEPT !.pointer = Nowhere], i, FALSE),
              "TitleHoverLeave", i, "")

\* The user presses or releases Control; no event reaches the program.
CtrlToggle ==
    /\ Commit([Cur EXCEPT !.ctrlDown = ~ctrlDown], "CtrlToggle", 0, "")

HoverTimeout(i) ==
    /\ HoverSource(i) \in sources
    /\ Commit(hoverTimeout(Cur, i), "HoverTimeout", i, "")

CtrlPollTick(i) ==
    /\ PollSource(i) \in sources
    /\ Commit(onCtrlPollTick(Cur, i), "CtrlPollTick", i, "")

CleanupTimeout(i) ==
    /\ CleanupSource(i) \in sources
    /\ Commit(cleanupTimeout(Cur, i), "CleanupTimeout", i, "")

ButtonPressed(i, button) ==
    /\ pointer = OnIcon(i)
    /\ Commit(onButtonPressed(Cur, i, button), "ButtonPressed", i, button)

PreviewButtonPressed(i, button) ==
    /\ pointer = OnPreview(i)
    /\ Commit(onPreviewButtonPressed(Cur, i, button),
              "PreviewButtonPressed", i, button)

CloseButtonClicked(i) ==
    /\ pointer = OnPreview(i)
    /\ Commit(onCloseButtonClicked(Cur, i), "CloseButtonClicked", i, "")

WorkspaceSwitched ==
    /\ Commit(workspaceSwitchedFrom(Cur, 1), "WorkspaceSwitched", 0, "")

\* window-removed for the window of icon i
WindowRemoved(i) ==
    /\ i \in onWorkspace
    /\ Commit(removeWindow([Cur EXCEPT !.onWorkspace = @ \ {i}], i),
              "WindowRemoved", i, "")

Next ==
    \/ \E i \in Icons : IconHoverEnter(i)
    \/ \E i \in Icons : IconHoverLeave(i)
    \/ \E i \in Icons : PreviewHoverEnter(i)
    \/ \E i \in Icons : PreviewHoverLeave(i)
    \/ \E i \in Icons : TitleHoverEnter(i)
    \/ \E i \in Icons : TitleHoverLeave(i)
    \/ CtrlToggle
    \/ \E i \in Icons : HoverTimeout(i)
    \/ \E i \in Icons : CtrlPollTick(i)
    \/ \E i \in Icons : CleanupTimeout(i)
    \/ \E i \in Icons, b \in Buttons : ButtonPressed(i, b)
    \/ \E i \in Icons, b \in Buttons : PreviewButtonPressed(i, b)
    \/ \E i \in Icons : CloseButtonClicked(i)
    \/ WorkspaceSwitched
    \/ \E i \in Icons : WindowRemoved(i)

Spec == Init /\ [][Next]_vars

TypeOK ==
    /\ state \in [Icons -> States]
    /\ ctrlPressed \in [Icons -> BOOLEAN]
    /\ ctrlPollId \in [Icons -> BOOLEAN]
    /\ cleanupTimeoutId \in [Icons -> BOOLEAN]
    /\ callbacks \in [Icons -> BOOLEAN]
    /\ hoverTimeoutId \in [Icons -> BOOLEAN]
    /\ hoverPreview \in [Icons -> BOOLEAN]
    /\ titlePopup \in [Icons -> BOOLEAN]
    /\ activePreview \in Icons \cup {NoPreview}
    /\ windowPreviews \subseteq Icons
    /\ addWindowTimeoutIds \subseteq Icons
    /\ windowCount \in Nat
    /\ boxIcons \in [Icons -> Nat]
    /\ onWorkspace \subseteq Icons
    /\ sources \subseteq {HoverSource(i) : i \in Icons} \cup
                         {PollSource(i) : i \in Icons} \cup
                         {CleanupSource(i) : i \in Icons} \cup
                         {AddSource(i) : i \in Icons}
    /\ ctrlDown \in BOOLEAN
    /\ unmapNotifies \in BOOLEAN

(***************************************************************************)
(* The PreviewStateMachine driven through its whole public interface: the  *)
(* handlers above, and destroy() called on the machine of an icon.         *)
(***************************************************************************)

StateMachineDestroy(i) ==
    /\ Commit(destroy(Cur, i), "StateMachineDestroy", i, "")

NextSM ==
    \/ Next
    \/ \E i \in Icons : StateMachineDestroy(i)

SpecSM == Init /\ [][NextSM]_vars

(***************************************************************************)
(* The program where St resets the hover of an overlay destroyed under the *)
(* pointer and notifies it synchronously.                                  *)
(***************************************************************************)

InitReentrant ==
    /\ state = [i \in Icons |-> IDLE]
    /\ ctrlPressed = [i \in Icons |-> FALSE]
    /\ ctrlPollId = [i \in Icons |-> FALSE]
    /\ cleanupTimeoutId = [i \in Icons |-> FALSE]
    /\ callbacks = [i \in Icons |-> TRUE]
    /\ hoverTimeoutId = [i \in Icons |-> FALSE]
    /\ hoverPreview = [i \in Icons |-> FALSE]
    /\ titlePopup = [i \in Icons |-> FALSE]
    /\ activePreview = NoPreview
    /\ windowPreviews = Icons
    /\ addWindowTimeoutIds = {}
    /\ windowCount = NumIcons
    /\ boxIcons = [i \in Icons |-> 1]
    /\ onWorkspace = Icons
    /\ sources = {}
    /\ pointer = Nowhere
    /\ ctrlDown = FALSE
    /\ unmapNotifies = TRUE
    /\ log = <<>>
    /\ last = [op |-> "init", icon |-> 0, arg |-> "",
               state |-> [i \in Icons |-> IDLE],
               activePreview |-> NoPreview, sources |-> {}]

SpecReentrant == InitReentrant /\ [][Next]_vars

(***************************************************************************)
(* One PreviewStateMachine and the PreviewRegistry as units: a caller      *)
(* invokes the public operations of the machine and of the registry in any *)
(* order, whatever the hover flags read by the callback table say, and the *)
(* timers of the machine fire.                                             *)
(***************************************************************************)

\* The icon whose machine the caller drives.
MachineUnderTest == CHOOSE i \in Icons : TRUE

\* The places the pointer can be: over an icon or over an existing overlay.
PointerPlaces ==
    {Nowhere} \cup {OnIcon(i) : i \in Icons}
              \cup {OnPreview(i) : i \in {j \in Icons : hoverPreview[j]}}
              \cup {OnTitle(i) : i \in {j \in Icons : titlePopup[j]}}

\* The hover flags change and no operation of the machine is called.
PointerMoves(p) ==
    /\ p \in PointerPlaces
    /\ p # pointer
    /\ Commit([Cur EXCEPT !.pointer = p], "PointerMoves", 0, "")

UnitOnIconHoverEnter(i) ==
    /\ Commit(onIconHoverEnter(Cur, i), "onIconHoverEnter", i, "")

UnitOnIconHoverLeave(i) ==
    /\ Commit(onIconHoverLeave(Cur, i), "onIconHoverLeave", i, "")

UnitOnPreviewHoverEnter(i) ==
    /\ Commit(onPreviewHoverEnter(Cur, i), "onPreviewHoverEnter", i, "")

UnitOnPreviewHoverLeave(i, iconHovered) ==
    /\ Commit(onPreviewHoverLeave(Cur, i, iconHovered),
              "onPreviewHoverLeave", i, "")

UnitForceIdle(i) ==
    /\ Commit(forceIdle(Cur, i, "unit"), "forceIdle", i, "")

\* The owner hides the overlays of the icon itself (_hideAllPreviews),
\* without going through the machine.
UnitHideAllPreviews(i) ==
    /\ Commit(hideAllPreviews(Cur, i), "hideAllPreviews", i, "")

UnitRegisterPreview(i) ==
    /\ Commit(registerPreview(Cur, i), "registerPreview", i, "")

UnitUnregisterPreview(i) ==
    /\ Commit(unregisterPreview(Cur, i), "unregisterPreview", i, "")

NextUnit ==
    \/ \E p \in PointerPlaces : PointerMoves(p)
    \/ CtrlToggle
    \/ UnitOnIconHoverEnter(MachineUnderTest)
    \/ UnitOnIconHoverLeave(MachineUnderTest)
    \/ UnitOnPreviewHoverEnter(MachineUnderTest)
    \/ \E h \in BOOLEAN : UnitOnPreviewHoverLeave(MachineUnderTest, h)
    \/ UnitForceIdle(MachineUnderTest)
    \/ CtrlPollTick(MachineUnderTest)
    \/ CleanupTimeout(MachineUnderTest)
    \/ StateMachineDestroy(MachineUnderTest)
    \/ UnitHideAllPreviews(MachineUnderTest)
    \/ \E i \in Icons : UnitRegisterPreview(i)
    \/ \E i \in Icons : UnitUnregisterPreview(i)

SpecUnit == Init /\ [][NextUnit]_vars

(***************************************************************************)
(* The unit harness with transition() itself callable: transition is a     *)
(* method of PreviewStateMachine that any holder of the machine can call    *)
(* with any target state.                                                  *)
(***************************************************************************)

UnitTransition(i, newState) ==
    /\ Commit(transition(Cur, i, newState), "transition", i, newState)

NextTransition ==
    \/ NextUnit
    \/ \E s \in States : UnitTransition(MachineUnderTest, s)

SpecTransition == Init /\ [][NextTransition]_vars

(***************************************************************************)
(* A WorkspaceThumbnail and the windows of its workspace: windows are      *)
(* added to and removed from the workspace, and the delayed adds fire.     *)
(***************************************************************************)

\* The most icons the thumbnail creates in a run.
MaxIconsCreated == 3

\* A thumbnail of an empty workspace, right after its constructor.
InitThumbnail ==
    /\ state = [i \in Icons |-> IDLE]
    /\ ctrlPressed = [i \in Icons |-> FALSE]
    /\ ctrlPollId = [i \in Icons |-> FALSE]
    /\ cleanupTimeoutId = [i \in Icons |-> FALSE]
    /\ callbacks = [i \in Icons |-> TRUE]
    /\ hoverTimeoutId = [i \in Icons |-> FALSE]
    /\ hoverPreview = [i \in Icons |-> FALSE]
    /\ titlePopup = [i \in Icons |-> FALSE]
    /\ activePreview = NoPreview
    /\ windowPreviews = {}
    /\ addWindowTimeoutIds = {}
    /\ windowCount = 0
    /\ boxIcons = [i \in Icons |-> 0]
    /\ onWorkspace = {}
    /\ sources = {}
    /\ pointer = Nowhere
    /\ ctrlDown = FALSE
    /\ unmapNotifies = FALSE
    /\ log = <<>>
    /\ last = [op |-> "init", icon |-> 0, arg |-> "",
               state |-> [i \in Icons |-> IDLE],
               activePreview |-> NoPreview, sources |-> {}]

\* window-added: window i enters the workspace.
WindowAdded(i, skipTaskbar) ==
    /\ i \notin onWorkspace
    /\ Commit(addWindow([Cur EXCEPT !.onWorkspace = @ \cup {i}], i, skipTaskbar),
              "WindowAdded", i, "")

\* window-created of the display for a window of this workspace (it
\* accompanies window-added for a new window).
WindowCreated(i, skipTaskbar) ==
    /\ i \in onWorkspace
    /\ Commit(addWindow(Cur, i, skipTaskbar), "WindowCreated", i, "")

\* The delayed add of window i fires.
AddWindowTimeout(i, onStage) ==
    /\ AddSource(i) \in sources
    /\ windowCount < MaxIconsCreated
    /\ Commit(addWindowTimeout(Cur, i, onStage), "AddWindowTimeout", i, "")

NextThumbnail ==
    \/ \E i \in Icons : \E skipTaskbar \in BOOLEAN : WindowAdded(i, skipTaskbar)
    \/ \E i \in Icons : \E skipTaskbar \in BOOLEAN : WindowCreated(i, skipTaskbar)
    \/ \E i \in Icons : \E onStage \in BOOLEAN : AddWindowTimeout(i, onStage)
    \/ \E i \in Icons : WindowRemoved(i)

SpecThumbnail == InitThumbnail /\ [][NextThumbnail]_vars

(***************************************************************************)
(* Properties                                                              *)
(***************************************************************************)

\* The last handler made the call `name` about icon i.
Called(name, i) ==
    \E k \in 1..Len(log) : log[k][1] = name /\ log[k][2] = i

\* How many times the last handler made the call `name` about icon i.
CallCount(name, i) ==
    Cardinality({k \in 1..Len(log) : log[k][1] = name /\ log[k][2] = i})

\* The position of the first call `name` about icon i in the log (0: none).
FirstCall(name, i) ==
    IF Called(name, i)
    THEN CHOOSE k \in 1..Len(log) :
            /\ log[k][1] = name /\ log[k][2] = i
            /\ \A j \in 1..(k - 1) : ~(log[j][1] = name /\ log[j][2] = i)
    ELSE 0

\* A timer of icon i is outstanding: its handle is held and its source is
\* scheduled in the main loop.
PollActive(i) == ctrlPollId[i] /\ PollSource(i) \in sources
CleanupActive(i) == cleanupTimeoutId[i] /\ CleanupSource(i) \in sources

\* Some trace of a timer of icon i is left: a handle or a scheduled source.
PollOutstanding(i) == ctrlPollId[i] \/ PollSource(i) \in sources
CleanupOutstanding(i) == cleanupTimeoutId[i] \/ CleanupSource(i) \in sources

HasOverlay(i) == hoverPreview[i] \/ titlePopup[i]

\* C1: in every reachable state at most one of the poll timer and the
\* cleanup timer of a machine is active.
C1_AtMostOneTimerActive ==
    \A i \in Icons : ~(PollActive(i) /\ CleanupActive(i))

\* C2: the poll timer is outstanding only while the state is ShowingPreview
\* or ShowingTitle; no state in {Idle, CleanupDelay} has a poll timer.
C2_PollOnlyWhileShowing ==
    \A i \in Icons :
        state[i] \in {IDLE, CLEANUP_DELAY} => ~PollOutstanding(i)

\* C3: forceIdle() called in any state returns with state == Idle and with
\* neither the poll timer nor the cleanup timer outstanding.
C3_ForceIdleLeavesIdleNoTimers ==
    \A i \in Icons :
        Called("forceIdle", i) =>
            /\ state[i] = IDLE
            /\ ~PollOutstanding(i)
            /\ ~CleanupOutstanding(i)

\* C4: at most one icon has an overlay (preview or title) in existence at
\* any time.
C4_SingleOverlay ==
    Cardinality({i \in Icons : HasOverlay(i)}) <= 1

\* C4 witness: an icon shows its overlay in the handler that took the
\* overlay of another icon down.
C4_Witness ==
    \E a \in Icons, b \in Icons :
        /\ a # b
        /\ Called("destroyPreview", a) \/ Called("destroyTitle", a)
        /\ Called("createPreview", b) \/ Called("createTitle", b)
        /\ HasOverlay(b)

\* C5: if PreviewRegistry.activePreview is non-null, its state machine is
\* not Idle; the slot is cleared whenever a registered machine returns to
\* Idle.
C5_ActiveIsNotIdle ==
    activePreview # NoPreview => state[activePreview] # IDLE

\* The last handler called registerPreview(b) while a different controller
\* a was active and UI-visible (ShowingPreview, ShowingTitle, CleanupDelay).
RegisteredOver(a, b) ==
    /\ a # b
    /\ Called("registerPreview", b)
    /\ last.activePreview = a
    /\ last.state[a] # IDLE

\* C6: when B registers while a different, UI-visible controller A is
\* active, A is forced to Idle and A's hideAll has run strictly before B is
\* recorded as active and before B's state leaves Idle, and the handler
\* touches no icon other than A and B.
C6_ForcedIdleBeforeRegister ==
    \A a \in Icons, b \in Icons :
        RegisteredOver(a, b) =>
            /\ state[a] = IDLE /\ ~HasOverlay(a)
            /\ activePreview = b
            /\ FirstCall("forceIdle", a) > FirstCall("registerPreview", b)
            /\ FirstCall("state", a) > FirstCall("forceIdle", a)
            /\ log[FirstCall("state", a)][3] = IDLE
            /\ FirstCall("onHideAll", a) > FirstCall("state", a)
            /\ CallCount("activePreview", b) = 1
            /\ FirstCall("activePreview", b) > FirstCall("onHideAll", a)
            /\ \A k \in 1..Len(log) :
                  /\ log[k][1] = "state" /\ log[k][2] = b
                        => k > FirstCall("activePreview", b)
                  /\ log[k][1] # "activePreview" => log[k][2] \in {a, b}

\* C6 witness: a debounce callback registered b over a UI-visible a and b
\* now shows its preview.
C6_Witness ==
    \E a \in Icons, b \in Icons :
        /\ RegisteredOver(a, b)
        /\ last.op = "HoverTimeout"
        /\ state[b] = SHOWING_PREVIEW

\* C7: when an icon is destroyed while its machine is in ShowingPreview,
\* hideAll is invoked exactly once by the state machine's destroy(), the
\* poll timer is cancelled, and afterwards no call into the registry is
\* made with a reference to the destroyed icon.
C7_DestroyWhileShowingPreview ==
    \A i \in Icons :
        /\ (last.op = "WindowRemoved" /\ last.icon = i
                /\ last.state[i] = SHOWING_PREVIEW)
             => /\ Called("destroy", i)
                /\ CallCount("onHideAll", i) = 1
                /\ FirstCall("onHideAll", i) > FirstCall("destroy", i)
                /\ ~PollOutstanding(i)
        /\ (i \notin windowPreviews /\ last.op # "WindowRemoved")
             => /\ ~Called("registerPreview", i)
                /\ ~Called("unregisterPreview", i)

\* C8: after PreviewStateMachine.destroy() is called from any state, the
\* machine's state is Idle.
C8_DestroyForcesIdle ==
    \A i \in Icons : Called("destroy", i) => state[i] = IDLE

\* C9: after WindowPreview.destroy() of an icon in any state, the registry's
\* active slot does not reference that icon and none of the icon's
\* debounce, poll or cleanup timers remains scheduled.
C9_DestroyUnregistersAndCancels ==
    \A i \in Icons :
        Called("WindowPreview.destroy", i) =>
            /\ activePreview # i
            /\ sources \cap {HoverSource(i), PollSource(i), CleanupSource(i)} = {}
            /\ ~hoverTimeoutId[i] /\ ~ctrlPollId[i] /\ ~cleanupTimeoutId[i]

\* C10: the debounce of a hover-enter in Idle, when it elapses with the
\* modifier not pressed, registers the icon and leads to ShowingPreview;
\* a debounce is pending only while the icon is hovered and Idle; a
\* hover-leave that arrives first cancels the pending debounce, calls
\* neither registerPreview nor showPreview, leaves the registry as it was
\* and leaves the state Idle.
C10_DebouncedHoverEnter ==
    \A i \in Icons :
        /\ (last.op = "HoverTimeout" /\ last.icon = i /\ ~ctrlDown)
             => /\ last.state[i] = IDLE
                /\ state[i] = SHOWING_PREVIEW
                /\ CallCount("onShowPreview", i) = 1
                /\ activePreview = i
        /\ (HoverSource(i) \in sources \/ hoverTimeoutId[i])
             => /\ pointer = OnIcon(i)
                /\ state[i] = IDLE
                /\ HoverSource(i) \in sources /\ hoverTimeoutId[i]
        /\ (last.op = "IconHoverLeave" /\ last.icon = i
                /\ HoverSource(i) \in last.sources)
             => /\ HoverSource(i) \notin sources
                /\ ~hoverTimeoutId[i]
                /\ state[i] = IDLE
                /\ ~Called("onShowPreview", i)
                /\ ~Called("registerPreview", i)
                /\ activePreview = last.activePreview

\* C10 witness: a hover-leave arrived while the debounce was pending.
C10_Witness ==
    \E i \in Icons :
        /\ last.op = "IconHoverLeave" /\ last.icon = i
        /\ HoverSource(i) \in last.sources
        /\ last.state[i] = IDLE
        /\ ~ctrlDown

\* C11: a poll tick in ShowingPreview that observes the modifier newly
\* pressed makes exactly one transition, to ShowingTitle; the preview overlay
\* is torn down and the title overlay is created exactly once, and
\* afterwards exactly the title overlay exists.
C11_PollTickSwitchesToTitle ==
    \A i \in Icons :
        (/\ last.op = "CtrlPollTick" /\ last.icon = i
         /\ last.state[i] = SHOWING_PREVIEW
         /\ Called("ctrlChanged", i) /\ ctrlPressed[i])
            => /\ CallCount("state", i) = 1
               /\ state[i] = SHOWING_TITLE
               /\ CallCount("destroyPreview", i) = 1
               /\ CallCount("createTitle", i) = 1
               /\ titlePopup[i] /\ ~hoverPreview[i]

\* C12: when the cleanup timer fires in CleanupDelay and shouldAbortCleanup
\* (of the attached callback table) is true, the timer clears its own handle, hideAll is not invoked and the
\* state remains CleanupDelay; a subsequent onPreviewHoverEnter() returns
\* the machine to a showing state, ShowingPreview when the modifier is not
\* pressed.
C12_CleanupAbortKeepsCleanupDelay ==
    \A i \in Icons :
        /\ (/\ last.op = "CleanupTimeout" /\ last.icon = i
            /\ last.state[i] = CLEANUP_DELAY
            /\ callbacks[i]
            /\ (hover(Cur, i) \/ previewHover(Cur, i) \/ titleHover(Cur, i)))
              => /\ ~cleanupTimeoutId[i]
                 /\ CleanupSource(i) \notin sources
                 /\ ~Called("onHideAll", i)
                 /\ ~Called("state", i)
                 /\ state[i] = CLEANUP_DELAY
        /\ (/\ last.op = "onPreviewHoverEnter" /\ last.icon = i
            /\ last.state[i] = CLEANUP_DELAY
            /\ CleanupSource(i) \notin last.sources)
              => /\ state[i] \in {SHOWING_PREVIEW, SHOWING_TITLE}
                 /\ ~ctrlDown => state[i] = SHOWING_PREVIEW

\* C12 witness: onPreviewHoverEnter() was called in the CleanupDelay that an
\* aborted cleanup left without a timer, with the modifier not pressed.
C12_Witness ==
    \E i \in Icons :
        /\ last.op = "onPreviewHoverEnter" /\ last.icon = i
        /\ last.state[i] = CLEANUP_DELAY
        /\ CleanupSource(i) \notin last.sources
        /\ ~ctrlDown
        /\ callbacks[i]
        /\ state[i] = SHOWING_PREVIEW

\* C13: for one icon the preview overlay and the title overlay never exist
\* at the same time.
C13_PreviewAndTitleExclusive ==
    \A i \in Icons : ~(hoverPreview[i] /\ titlePopup[i])

\* C13 witness: a handler took the preview of an icon down and created its
\* title overlay.
C13_Witness ==
    \E i \in Icons :
        /\ Called("destroyPreview", i)
        /\ Called("createTitle", i)
        /\ titlePopup[i]

\* C14: the cleanup timer's handle is non-null (and its source scheduled)
\* only while the state is CleanupDelay: a handler that leaves CleanupDelay,
\* by any route, leaves neither the handle nor the source behind.
C14_CleanupTimerOnlyInCleanupDelay ==
    \A i \in Icons :
        CleanupOutstanding(i) => state[i] = CLEANUP_DELAY

\* C14 witness: a handler left CleanupDelay, where the timer was scheduled,
\* for a showing state.
C14_Witness ==
    \E i \in Icons :
        /\ last.state[i] = CLEANUP_DELAY
        /\ CleanupSource(i) \in last.sources
        /\ state[i] \in {SHOWING_PREVIEW, SHOWING_TITLE}
        /\ Called("stopCleanupTimer", i)

\* The registry's active slot just before the k-th call of the last handler.
ActiveAt(k) ==
    LET ks == {j \in 1..(k - 1) : log[j][1] = "activePreview"}
    IN  IF ks = {} THEN last.activePreview
        ELSE log[CHOOSE j \in ks : \A m \in ks : m <= j][2]

\* C15: unregisterPreview(controller) nulls the active slot only if that
\* controller is the one recorded; if a different controller holds the slot
\* (or none), the slot is left unchanged.
C15_UnregisterOnlyOwnSlot ==
    \A k \in 1..Len(log) :
        log[k][1] = "unregisterPreview" =>
            LET cleared == k < Len(log) /\ log[k + 1][1] = "activePreview"
            IN  IF ActiveAt(k) = log[k][2]
                THEN cleared /\ log[k + 1][2] = NoPreview
                ELSE ~cleared /\ ActiveAt(k + 1) = ActiveAt(k)

\* C15 witness: a controller was unregistered while a different controller
\* held the slot, which still holds it.
C15_Witness ==
    \E k \in 1..Len(log) :
        /\ log[k][1] = "unregisterPreview"
        /\ ActiveAt(k) \notin {log[k][2], NoPreview}
        /\ activePreview = ActiveAt(k)

\* The last handler called registerPreview(b) while a different controller
\* a was recorded as active and already Idle.
RegisteredOverIdle(a, b) ==
    /\ a # b
    /\ Called("registerPreview", b)
    /\ last.activePreview = a
    /\ last.state[a] = IDLE

\* C16: registerPreview(B) while the previous active controller A # B is
\* already Idle skips the forced transition: no forceIdle and no hideAll of
\* A, nothing of A is called at all, A's state and scheduled timers are
\* unchanged, and B is recorded as active.
C16_RegisterOverIdleSkipsForceIdle ==
    \A a \in Icons, b \in Icons :
        RegisteredOverIdle(a, b) =>
            /\ ~Called("forceIdle", a)
            /\ ~Called("onHideAll", a)
            /\ \A k \in 1..Len(log) :
                  log[k][1] # "activePreview" => log[k][2] # a
            /\ state[a] = IDLE
            /\ sources \cap {PollSource(a), CleanupSource(a), HoverSource(a)}
                 = last.sources \cap {PollSource(a), CleanupSource(a), HoverSource(a)}
            /\ CallCount("activePreview", b) = 1
            /\ activePreview = b

\* C16 witness: b registered over an Idle a that the registry still recorded
\* and b now shows its preview.
C16_Witness ==
    \E a \in Icons, b \in Icons :
        /\ RegisteredOverIdle(a, b)
        /\ activePreview = b
        /\ state[b] = SHOWING_PREVIEW

\* The calls made by an operation that ended in T, by name.
CallsOf(T) == {T.log[k][1] : k \in 1..Len(T.log)}

\* T differs from the current state in nothing but the timer handles of
\* icon i, which are null in T: the lifecycle states, the overlays, the
\* registry slot, the callback tables and the scheduled sources are as
\* they are now.
NoOpFor(T, i) ==
    /\ ~T.thrown
    /\ ~T.ctrlPollId[i] \/ T.ctrlPollId = ctrlPollId
    /\ ~T.cleanupTimeoutId[i] \/ T.cleanupTimeoutId = cleanupTimeoutId
    /\ [T EXCEPT !.log = <<>>, !.ctrlPollId[i] = FALSE,
                 !.cleanupTimeoutId[i] = FALSE]
         = [Cur EXCEPT !.ctrlPollId[i] = FALSE, !.cleanupTimeoutId[i] = FALSE]

C18_NoTimerCallbackAfterDestroy ==
    \A i \in Icons :
        (i \notin windowPreviews \/ ~callbacks[i]) =>
            ~(/\ last.icon = i
              /\ last.op \in {"HoverTimeout", "CtrlPollTick", "CleanupTimeout"})

\* C19: every handler (one call of a public operation per machine, or one
\* timer firing) changes the state of a machine at most once, the changes
\* made by callbacks that re-enter the machine included.
C19_AtMostOneStateChangePerCall ==
    \A i \in Icons : CallCount("state", i) <= 1

\* C20: in every reachable state where a machine is in ShowingPreview or
\* ShowingTitle, its poll timer is scheduled.
C20_ShowingHasPollScheduled ==
    \A i \in Icons :
        state[i] \in {SHOWING_PREVIEW, SHOWING_TITLE} =>
            PollSource(i) \in sources /\ ctrlPollId[i]

\* The last handler was a poll tick of icon i that found the overlay of its
\* showing state missing.
PollTickFoundContentMissing(i) ==
    /\ last.op = "CtrlPollTick" /\ last.icon = i
    /\ last.state[i] \in {SHOWING_PREVIEW, SHOWING_TITLE}
    /\ Called("forceIdle", i)

\* C21: a poll tick that finds the overlay of the current showing state
\* missing forces the machine to Idle without sampling the modifier key,
\* invokes the forced-idle callback and stops the poll: afterwards the poll
\* handle is null and no poll source is scheduled.
C21_PollTickMissingContent ==
    \A i \in Icons :
        PollTickFoundContentMissing(i) =>
            /\ state[i] = IDLE
            /\ ~Called("ctrlChanged", i) /\ ~Called("checkCtrlKeyState", i)
            /\ CallCount("onForceIdle", i) = 1
            /\ PollSource(i) \notin sources
            /\ ~ctrlPollId[i]

\* C22: with no surface hovered (so that no hover event arrives), every
\* machine that is not Idle is on its way to Idle: one of its timers is
\* scheduled.  A machine in ShowingPreview, ShowingTitle or CleanupDelay with
\* nothing hovered and no timer scheduled stays where it is for ever,
\* whatever timers fire.
C22_NoStrandedMachine ==
    \A i \in Icons :
        (pointer = Nowhere /\ state[i] # IDLE) =>
            \/ CleanupSource(i) \in sources
            \/ PollSource(i) \in sources

\* C23: whenever a machine is in ShowingPreview the preview overlay of its
\* icon exists, and whenever it is in ShowingTitle the title overlay exists.
C23_ShowingStateHasItsOverlay ==
    \A i \in Icons :
        /\ state[i] = SHOWING_PREVIEW => hoverPreview[i]
        /\ state[i] = SHOWING_TITLE => titlePopup[i]

\* The last handler moved the machine of icon i from one showing state to
\* the other while its poll was running.
SwitchedOverlayKind(i) ==
    /\ last.state[i] \in {SHOWING_PREVIEW, SHOWING_TITLE}
    /\ PollSource(i) \in last.sources
    /\ Called("state", i)
    /\ log[FirstCall("state", i)][3] \in {SHOWING_PREVIEW, SHOWING_TITLE}

\* C24: a transition between ShowingPreview and ShowingTitle keeps the poll
\* running uninterrupted: the poll timer is neither cancelled nor
\* restarted, and the same source is scheduled before and after.
C24_PollSurvivesOverlaySwitch ==
    \A i \in Icons :
        SwitchedOverlayKind(i) =>
            /\ ~Called("stopCtrlPoll", i)
            /\ ~Called("startCtrlPoll", i)
            /\ PollSource(i) \in sources
            /\ ctrlPollId[i]

\* The enter actions of the states, as calls.
EnterCalls == {"onShowPreview", "onShowTitle", "onHideAll", "startCleanupTimer"}

\* C25, exit action of a showing state: a transition from a showing state
\* with the poll running to a state that is not a showing state stops the
\* poll before the state is assigned.
C25_ExitStopsPollForNonShowingTarget ==
    \A i \in Icons :
        (/\ last.state[i] \in {SHOWING_PREVIEW, SHOWING_TITLE}
         /\ PollSource(i) \in last.sources
         /\ Called("state", i)
         /\ log[FirstCall("state", i)][3] \in {IDLE, CLEANUP_DELAY})
            => /\ Called("stopCtrlPoll", i)
               /\ FirstCall("stopCtrlPoll", i) < FirstCall("state", i)

\* C25, the rest: leaving CleanupDelay cancels its timer before the state is
\* assigned; the enter actions run after the state is assigned; a
\* self-transition (forceIdle in Idle) assigns no state, invokes no callback
\* of the state and touches no timer.
C25_OrderAndSelfTransition ==
    \A i \in Icons :
        /\ (/\ last.state[i] = CLEANUP_DELAY
            /\ CleanupSource(i) \in last.sources
            /\ Called("state", i))
              => /\ Called("stopCleanupTimer", i)
                 /\ FirstCall("stopCleanupTimer", i) < FirstCall("state", i)
        /\ \A k \in 1..Len(log) :
              (log[k][1] \in EnterCalls /\ log[k][2] = i)
                 => /\ Called("state", i)
                    /\ k > FirstCall("state", i)
        /\ (Called("forceIdle", i) /\ last.state[i] = IDLE)
              => \A k \in 1..Len(log) :
                    log[k][2] = i =>
                        log[k][1] \in {"forceIdle", "onForceIdle",
                                       "unregisterPreview", "activePreview",
                                       "registerPreview", "checkCtrlKeyState"}

\* C25: every transition runs the exit action of the old state, decided on
\* the target state, then assigns the state, then runs the enter action of
\* the new state; a self-transition does nothing.
C25_TransitionAlgorithm ==
    C25_ExitStopsPollForNonShowingTarget /\ C25_OrderAndSelfTransition

\* C26: every forceIdle call, in every state (Idle included), invokes the
\* owner's forced-idle callback exactly once, which unregisters the
\* controller: the slot is cleared if it held the controller and is left as
\* it was if another controller (or none) held it; after the handler the
\* slot does not hold the controller.
C26_ForceIdleNotifiesOwnerOnce ==
    \A i \in Icons :
        Called("forceIdle", i) =>
            /\ CallCount("onForceIdle", i) = CallCount("forceIdle", i)
            /\ activePreview # i
            /\ \A k \in 1..Len(log) :
                  (log[k][1] = "forceIdle" /\ log[k][2] = i) =>
                      /\ k + 2 <= Len(log)
                      /\ log[k + 1] = Ev("onForceIdle", i, "")
                      /\ log[k + 2] = Ev("unregisterPreview", i, "")
                      /\ IF ActiveAt(k) = i
                         THEN /\ k + 3 <= Len(log)
                              /\ log[k + 3] = Ev("activePreview", NoPreview, "")
                         ELSE ~(k + 3 <= Len(log)
                                   /\ log[k + 3][1] = "activePreview")

\* C26 witness: forceIdle was called on a machine that was already Idle
\* while another controller held the slot, which still holds it.
C26_Witness ==
    \E i \in Icons :
        /\ Called("forceIdle", i)
        /\ last.state[i] = IDLE
        /\ Called("onForceIdle", i)
        /\ last.activePreview \notin {i, NoPreview}
        /\ activePreview = last.activePreview

\* C27: a controller in ShowingPreview, ShowingTitle or CleanupDelay is the
\* registry's active controller, so at most one machine is non-Idle.
C27_NonIdleIsActivePreview ==
    /\ \A i \in Icons : state[i] # IDLE => activePreview = i
    /\ Cardinality({i \in Icons : state[i] # IDLE}) <= 1

\* C27 witness: a controller entered a showing state from Idle and took the
\* slot from another controller that was still UI-visible, which is now
\* Idle.
C27_Witness ==
    \E i \in Icons : \E j \in Icons \ {i} :
        /\ last.state[i] = IDLE
        /\ state[i] \in {SHOWING_PREVIEW, SHOWING_TITLE}
        /\ last.activePreview = j
        /\ last.state[j] # IDLE
        /\ state[j] = IDLE
        /\ activePreview = i

\* C28: a machine in Idle has neither a preview overlay nor a title overlay.
C28_IdleHasNoOverlay ==
    \A i \in Icons : state[i] = IDLE => ~hoverPreview[i] /\ ~titlePopup[i]

\* C28 witness: a machine that showed a title overlay entered Idle in this
\* handler; onHideAll ran and destroyed the overlay.
C28_Witness ==
    \E i \in Icons :
        /\ last.state[i] = SHOWING_TITLE
        /\ state[i] = IDLE
        /\ Called("onHideAll", i)
        /\ Called("destroyTitle", i)
        /\ ~hoverPreview[i] /\ ~titlePopup[i]

\* C29: onIconHoverEnter called in CleanupDelay cancels the cleanup timer,
\* samples the modifier and ends, within the call (no debounce timer), in
\* ShowingTitle if Control is down and in ShowingPreview if not; called in
\* ShowingPreview or ShowingTitle it changes nothing and calls nothing.
C29_IconHoverEnterInCleanupOrShowing ==
    \A i \in Icons :
        LET T == onIconHoverEnter(Cur, i)
        IN  /\ (state[i] = CLEANUP_DELAY /\ callbacks[i]) =>
                  /\ ~T.thrown
                  /\ ~T.cleanupTimeoutId[i]
                  /\ CleanupSource(i) \notin T.sources
                  /\ "checkCtrlKeyState" \in CallsOf(T)
                  /\ T.ctrlPressed[i] = ctrlDown
                  /\ T.state[i] = IF ctrlDown THEN SHOWING_TITLE
                                  ELSE SHOWING_PREVIEW
                  /\ "addHoverTimeout" \notin CallsOf(T)
                  /\ T.hoverTimeoutId = hoverTimeoutId
            /\ state[i] \in {SHOWING_PREVIEW, SHOWING_TITLE} => T = Cur

\* C29 witness: onIconHoverEnter was called in CleanupDelay with the cleanup
\* timer pending and Control down, and ended in ShowingTitle with the timer
\* cancelled.
C29_Witness ==
    \E i \in Icons :
        /\ last.op = "onIconHoverEnter" /\ last.icon = i
        /\ last.state[i] = CLEANUP_DELAY
        /\ CleanupSource(i) \in last.sources
        /\ Called("stopCleanupTimer", i)
        /\ state[i] = SHOWING_TITLE
        /\ ~CleanupOutstanding(i)

\* C30: onIconHoverLeave called in ShowingPreview or ShowingTitle ends,
\* within the call, in CleanupDelay with the cleanup timer started; called
\* in Idle or CleanupDelay it changes nothing (a running cleanup timer is
\* neither cancelled nor restarted).
C30_IconHoverLeave ==
    \A i \in Icons :
        LET T == onIconHoverLeave(Cur, i)
        IN  /\ state[i] \in {SHOWING_PREVIEW, SHOWING_TITLE} =>
                  /\ ~T.thrown
                  /\ T.state[i] = CLEANUP_DELAY
                  /\ "startCleanupTimer" \in CallsOf(T)
                  /\ T.cleanupTimeoutId[i]
                  /\ CleanupSource(i) \in T.sources
            /\ state[i] \in {IDLE, CLEANUP_DELAY} => T = Cur

\* C30 witness: onIconHoverLeave was called in ShowingPreview and ended in
\* CleanupDelay with the cleanup timer running.
C30_Witness ==
    \E i \in Icons :
        /\ last.op = "onIconHoverLeave" /\ last.icon = i
        /\ last.state[i] = SHOWING_PREVIEW
        /\ state[i] = CLEANUP_DELAY
        /\ Called("startCleanupTimer", i)
        /\ CleanupActive(i)

\* C31: onPreviewHoverEnter called in CleanupDelay cancels the cleanup timer,
\* samples the modifier and ends in ShowingTitle if Control is down and in
\* ShowingPreview if not; called in Idle, ShowingPreview or ShowingTitle it
\* changes nothing (state, timers and overlays) and calls nothing.
C31_PreviewHoverEnterOnlyInCleanupDelay ==
    \A i \in Icons :
        LET T == onPreviewHoverEnter(Cur, i)
        IN  /\ (state[i] = CLEANUP_DELAY /\ callbacks[i]) =>
                  /\ ~T.thrown
                  /\ ~T.cleanupTimeoutId[i]
                  /\ CleanupSource(i) \notin T.sources
                  /\ "checkCtrlKeyState" \in CallsOf(T)
                  /\ T.ctrlPressed[i] = ctrlDown
                  /\ T.state[i] = IF ctrlDown THEN SHOWING_TITLE
                                  ELSE SHOWING_PREVIEW
            /\ state[i] \in {IDLE, SHOWING_PREVIEW, SHOWING_TITLE} => T = Cur

\* C31 witness: onPreviewHoverEnter was called in CleanupDelay with the
\* cleanup timer pending and Control up, and ended in ShowingPreview with
\* the timer cancelled.
C31_Witness ==
    \E i \in Icons :
        /\ last.op = "onPreviewHoverEnter" /\ last.icon = i
        /\ last.state[i] = CLEANUP_DELAY
        /\ CleanupSource(i) \in last.sources
        /\ Called("stopCleanupTimer", i)
        /\ state[i] = SHOWING_PREVIEW
        /\ ~CleanupOutstanding(i)

\* C32: onPreviewHoverLeave(iconHovered) ends in CleanupDelay, with the
\* cleanup timer started, when iconHovered is false and the state is
\* ShowingPreview or ShowingTitle; when iconHovered is true, or the state is
\* Idle or CleanupDelay, it changes nothing and calls nothing.
C32_PreviewHoverLeave ==
    \A i \in Icons : \A h \in BOOLEAN :
        LET T == onPreviewHoverLeave(Cur, i, h)
        IN  IF ~h /\ state[i] \in {SHOWING_PREVIEW, SHOWING_TITLE}
            THEN /\ ~T.thrown
                 /\ T.state[i] = CLEANUP_DELAY
                 /\ "startCleanupTimer" \in CallsOf(T)
                 /\ T.cleanupTimeoutId[i]
                 /\ CleanupSource(i) \in T.sources
            ELSE T = Cur

\* C32 witness: onPreviewHoverLeave was called in ShowingTitle and the
\* machine went to CleanupDelay with the cleanup timer running.
C32_Witness ==
    \E i \in Icons :
        /\ last.op = "onPreviewHoverLeave" /\ last.icon = i
        /\ last.state[i] = SHOWING_TITLE
        /\ state[i] = CLEANUP_DELAY
        /\ Called("startCleanupTimer", i)
        /\ CleanupActive(i)

\* The other showing state.
OtherShowing(s) == IF s = SHOWING_PREVIEW THEN SHOWING_TITLE ELSE SHOWING_PREVIEW

\* The content the poll tick looks for is present.
ContentPresent(i) ==
    \/ state[i] = SHOWING_PREVIEW /\ hoverPreview[i]
    \/ state[i] = SHOWING_TITLE /\ titlePopup[i]

\* The target of the first state change logged in T about icon i ("" if
\* there is none).
FirstStateChange(T, i) ==
    LET ks == {k \in 1..Len(T.log) : T.log[k][1] = "state" /\ T.log[k][2] = i}
    IN  IF ks = {} THEN ""
        ELSE T.log[CHOOSE k \in ks : \A j \in ks : k <= j][3]

\* C33: a poll tick in a showing state with its content present acts on
\* edges only. If the sampled modifier differs from the last-known value,
\* the value is updated and the machine moves to the other showing state;
\* if it equals the last-known value, nothing is changed or called and the
\* poll source stays scheduled.
C33_PollTickReportsEdgesOnly ==
    \A i \in Icons :
        (/\ PollSource(i) \in sources
         /\ callbacks[i]
         /\ ContentPresent(i))
            => LET T == onCtrlPollTick(Cur, i)
               IN  IF ctrlDown # ctrlPressed[i]
                   THEN /\ T.ctrlPressed[i] = ctrlDown
                        /\ FirstStateChange(T, i) = OtherShowing(state[i])
                   ELSE T = Cur

\* C33 witness: a poll tick in ShowingTitle sampled Control released and
\* moved the machine to ShowingPreview.
C33_Witness ==
    \E i \in Icons :
        /\ last.op = "CtrlPollTick" /\ last.icon = i
        /\ last.state[i] = SHOWING_TITLE
        /\ Called("ctrlChanged", i)
        /\ ~ctrlPressed[i]
        /\ log[FirstCall("state", i)][3] = SHOWING_PREVIEW

\* C36: in a showing state the kind of overlay matches the last-known
\* modifier value: ShowingTitle implies _ctrlPressed, ShowingPreview implies
\* not _ctrlPressed.
C36_ShowingKindMatchesCtrlPressed ==
    \A i \in Icons :
        /\ state[i] = SHOWING_TITLE => ctrlPressed[i]
        /\ state[i] = SHOWING_PREVIEW => ~ctrlPressed[i]

\* C36 witness: the debounce callback sampled Control down and the machine
\* entered ShowingTitle from Idle.
C36_Witness ==
    \E i \in Icons :
        /\ last.op = "HoverTimeout" /\ last.icon = i
        /\ last.state[i] = IDLE
        /\ Called("checkCtrlKeyState", i)
        /\ state[i] = SHOWING_TITLE
        /\ ctrlPressed[i]

\* C34: when the cleanup timer fires, its handle is cleared before owner
\* code runs, so a cancellation made from inside the callback finds no
\* handle: the handler of a cleanup timeout never cancels the cleanup timer
\* through its handle.
C34_CleanupHandleClearedBeforeOwnerCode ==
    \A i \in Icons :
        (last.op = "CleanupTimeout" /\ last.icon = i)
            => ~Called("stopCleanupTimer", i)

\* C35: the only move outside the transition table is Idle to CleanupDelay,
\* and transition() performs it all the same: a warning is logged, the
\* state becomes CleanupDelay and the enter action starts the cleanup timer.
C35_OutOfTableTransitionPerformed ==
    /\ \A old \in States : \A new \in States \ {old} :
          new \notin validTransitions(old)
              <=> (old = IDLE /\ new = CLEANUP_DELAY)
    /\ \A i \in Icons :
          state[i] = IDLE =>
              LET T == transition(Cur, i, CLEANUP_DELAY)
              IN  /\ ~T.thrown
                  /\ "invalidTransition" \in CallsOf(T)
                  /\ T.state[i] = CLEANUP_DELAY
                  /\ "startCleanupTimer" \in CallsOf(T)
                  /\ T.cleanupTimeoutId[i]
                  /\ CleanupSource(i) \in T.sources

\* C35 witness: transition(CleanupDelay) was called on an Idle machine; the
\* machine is in CleanupDelay with the cleanup timer running.
C35_Witness ==
    \E i \in Icons :
        /\ last.op = "transition" /\ last.icon = i
        /\ last.arg = CLEANUP_DELAY
        /\ last.state[i] = IDLE
        /\ Called("invalidTransition", i)
        /\ state[i] = CLEANUP_DELAY
        /\ CleanupActive(i)

\* C37: no handler ever performs a transition outside the transition table
\* (Idle to CleanupDelay): the warning of transition() is never logged.
C37_NoOutOfTableTransition ==
    \A i \in Icons :
        /\ ~Called("invalidTransition", i)
        /\ (last.state[i] = IDLE /\ Called("state", i))
              => log[FirstCall("state", i)][3] # CLEANUP_DELAY

\* C37 witness: onIconHoverLeave or onPreviewHoverLeave, the operations that
\* lead to CleanupDelay, was called on an Idle machine, which stayed Idle
\* without any state change.
C37_Witness ==
    \E i \in Icons :
        /\ last.op \in {"onIconHoverLeave", "onPreviewHoverLeave"}
        /\ last.icon = i
        /\ last.state[i] = IDLE
        /\ ~Called("state", i)
        /\ state[i] = IDLE

\* C38: after destroy() of a machine (its callback table is null), each
\* public operation called on it is a no-op: it changes nothing, calls
\* nothing, schedules no timer and does not throw.
C38_OperationsAfterDestroyAreNoOps ==
    \A i \in Icons :
        ~callbacks[i] =>
            /\ onIconHoverEnter(Cur, i) = Cur
            /\ onIconHoverLeave(Cur, i) = Cur
            /\ onPreviewHoverEnter(Cur, i) = Cur
            /\ \A h \in BOOLEAN : onPreviewHoverLeave(Cur, i, h) = Cur
            /\ LET T == forceIdle(Cur, i, "")
               IN  /\ ~T.thrown
                   /\ T.sources = sources
                   /\ CallsOf(T) \subseteq {"forceIdle"}

\* C39: a window removed from the workspace while its delayed add is
\* pending has the add cancelled: no add timer is pending for a window that
\* is not on the workspace, and no icon is created for such a window.
C39_RemoveCancelsPendingAdd ==
    \A i \in Icons :
        /\ i \notin onWorkspace => AddSource(i) \notin sources
        /\ Called("newWindowPreview", i) => i \in onWorkspace

\* C40: for each window there is at most one icon in the thumbnail and at
\* most one pending add timer, recorded in _addWindowTimeoutIds, and
\* _windowCount equals the number of entries of _windowPreviews.
C40_WindowCountMatchesPreviews ==
    /\ \A i \in Icons :
          /\ boxIcons[i] <= 1
          /\ AddSource(i) \in sources => i \in addWindowTimeoutIds
    /\ windowCount = Cardinality(windowPreviews)

====
